---- MODULE Spec2Model ----
(***************************************************************************)
(* SmartRide campus-shuttle backend: shuttle registration and seeding,     *)
(* booking allocation, seat accounting and cancellation (src/main.py:      *)
(* register_shuttle, seed_default, create_booking, cancel_booking).        *)
(*                                                                         *)
(* Every store operation of a handler is one step; the handlers of         *)
(* concurrent requests interleave at these steps (FastAPI runs the sync    *)
(* endpoints on a thread pool).  The specifications differ in the workers  *)
(* that serve requests, the requests they receive and the store failures   *)
(* they allow:                                                             *)
(*   Spec          two workers, unscheduled bookings, the booking insert   *)
(*                 may fail;                                               *)
(*   SpecClock     two workers, scheduled bookings, the clock advances;    *)
(*   SpecSeats     two workers, every seat count the endpoint accepts;     *)
(*   SpecFault     two workers, every store operation may raise;           *)
(*   SpecDisjoint  two workers, calls that share no shuttle and no         *)
(*                 booking to cancel;                                      *)
(*   SpecAtomic    one worker (each call runs to its end before the next   *)
(*                 starts), seat counts within 1..6, shuttles seeded and   *)
(*                 registered with occupancy within capacity;              *)
(*   SpecScenario  one worker, a campus with one freshly registered        *)
(*                 shuttle.                                                *)
(* Time is counted in whole minutes.                                       *)
(***************************************************************************)
EXTENDS Integers, Sequences, FiniteSets, TLC

\* shuttles  the "shuttle" collection, _id |-> document
\* bookings  the "booking" collection in insertion order, _id = position
\* now       datetime.utcnow(), in minutes
\* pc, call  per request worker: the handler's position and its local variables
\* resp      the response of the step just taken (NoResp when none was sent)
\* initial   every shuttle document as it was when it entered the collection
\* faults    the store writes that raised: .create the create_booking calls that
\*           a raising write ended, .cancel the cancel_booking calls likewise
VARIABLES shuttles, bookings, now, pc, call, resp, initial, faults

vars == <<shuttles, bookings, now, pc, call, resp, initial, faults>>

\* ---------------------------------------------------------------- bounds
MaxBookings == 2
MaxTime == 2
Cap == 3
MaxShuttles == 4
MaxFaults == 1

\* ------------------------------------------------------ program constants
DefaultCapacity == 12
DefaultOccupancy == 0
ETA == 10
CancelCutoff == 5
MinSeats == 1
MaxSeats == 6

Procs == {1, 2}
\* the worker of the specifications that run one call at a time
Sequential == {1}
\* Optional[datetime]: None is the empty tuple, a datetime t is <<t>>
None == << >>
\* BookingIn.seats is a plain int: the endpoint accepts any integer
SeatInputs == {-1, 0, 2, 7}
\* seat counts of the documented range MinSeats..MaxSeats
RangeSeats == {s \in {2, 6} : MinSeats <= s /\ s <= MaxSeats}
\* the seat count of the requests that race for a shuttle
RaceSeats == {2}
ScheduledInputs == {None, <<6>>}
CampusInputs == {"Tesano", "Abokobi"}
StopPairs == {<<"TES-LIB", "TES-ADM">>, <<"TES-LIB", "TES-LIB">>}
\* ShuttleIn documents posted to /shuttles: one with the defaults of ShuttleIn,
\* and one that is out of service and holds more than its capacity (the
\* endpoint validates neither)
ShuttleInputs ==
  { [identifier |-> "SR-09", campus |-> "Abokobi", status |-> "idle",
     capacity |-> DefaultCapacity, occupancy |-> DefaultOccupancy],
    [identifier |-> "SR-10", campus |-> "Tesano", status |-> "charging",
     capacity |-> Cap, occupancy |-> Cap + 1] }
\* the documents among them that are in service
IdleShuttleInputs == {sh \in ShuttleInputs : sh.status = "idle"}
\* the documents among them that hold no more than their capacity
ValidShuttleInputs == {sh \in ShuttleInputs : 0 <= sh.occupancy /\ sh.occupancy <= sh.capacity}
\* the campus that has no shuttle in service until one is registered
RegisteredCampus == "Abokobi"

\* ------------------------------------------------------------ identifiers
\* str(shuttle["_id"]) / str(inserted_id): the hex string of an ObjectId
ObjectIdStr(oid) == <<"hex", oid>>

\* bson.ObjectId(s) accepts only a well-formed hex string (InvalidId otherwise)
IsValidObjectId(s) == Len(s) = 2 /\ s[1] = "hex"

ObjectId(s) == s[2]

BookingIdInputs == {ObjectIdStr(i) : i \in 1..(MaxBookings + 1)} \cup {<<"not-an-object-id">>}

\* ------------------------------------------------------------- responses
NoResp == [code |-> 0, status |-> "none"]

Response(code, status) == [code |-> code, status |-> status]

NoCall == [op |-> "none"]

\* ------------------------------------------------------- create_booking
BookingIn(seatSet, schedSet) ==
  [campus : CampusInputs, stops : StopPairs, scheduled_time : schedSet, seats : seatSet]

SamePickupDropoff(req) == req.stops[1] = req.stops[2]

\* the filter as it would be without its status condition
ShuttleFilter_AnyStatus(shs, campus) == {s \in DOMAIN shs : shs[s].campus = campus}

\* db["shuttle"].find_one({"campus": c, "status": {"$in": ["idle","enroute"]}}):
\* the documents the filter matches; which one is returned is up to the store
ShuttleFilter(shs, campus) ==
  {s \in DOMAIN shs : shs[s].campus = campus /\ shs[s].status \in {"idle", "enroute"}}

\* the check as it would be if the requested seats were left out of it
CapacityExceeded_IgnoresSeats(occupancy, seats, capacity) == occupancy > capacity

CapacityExceeded(occupancy, seats, capacity) == occupancy + seats > capacity

\* the increment as a conditional write that re-checks capacity at write time
reserve_seats_Guarded(shs, sid, seats) ==
  IF shs[sid].occupancy + seats > shs[sid].capacity
    THEN shs
    ELSE [shs EXCEPT ![sid] = [@ EXCEPT !.occupancy = @ + seats, !.status = "enroute"]]

\* update_one({"_id": id}, {"$inc": {"occupancy": seats}, "$set": {"status": "enroute"}})
reserve_seats(shs, sid, seats) ==
  [shs EXCEPT ![sid] = [@ EXCEPT !.occupancy = @ + seats, !.status = "enroute"]]

BookingDoc(req, sid, identifier) ==
  [campus |-> req.campus, pickup_code |-> req.stops[1], dropoff_code |-> req.stops[2],
   scheduled_time |-> req.scheduled_time, seats |-> req.seats,
   status |-> "confirmed", eta_minutes |-> ETA,
   assigned_shuttle_id |-> ObjectIdStr(sid),
   assigned_shuttle_identifier |-> identifier]

\* database.create_document: inserts the document, the new _id is its position
create_document(bks, data) == Append(bks, data)

\* the handler as it would be without its early return on a canceled booking
AlreadyCanceled_Never(b) == FALSE

\* ------------------------------------------------------- cancel_booking
AlreadyCanceled(b) == b.status = "canceled"

\* the cutoff as it would be with an inclusive comparison
WindowClosed_Inclusive(t, scheduled) == t >= scheduled - CancelCutoff

WindowClosed(t, scheduled) == t > scheduled - CancelCutoff

\* the decrement as it would be if it also put an emptied shuttle back to idle
free_seats_ResetsIdle(shs, b) ==
  [s \in DOMAIN shs |->
     IF IsValidObjectId(b.assigned_shuttle_id) /\ s = ObjectId(b.assigned_shuttle_id)
       THEN [shs[s] EXCEPT !.occupancy = @ - b.seats,
                           !.status = IF shs[s].occupancy - b.seats <= 0
                                        THEN "idle" ELSE @]
       ELSE shs[s]]

\* update_one({"_id": ObjectId(shuttle_id)}, {"$inc": {"occupancy": -seats}})
free_seats(shs, b) ==
  [s \in DOMAIN shs |->
     IF IsValidObjectId(b.assigned_shuttle_id) /\ s = ObjectId(b.assigned_shuttle_id)
       THEN [shs[s] EXCEPT !.occupancy = @ - b.seats]
       ELSE shs[s]]

\* the write as it would be if it closed the booking instead of canceling it
mark_canceled_Completes(bks, bid) == [bks EXCEPT ![bid] = [@ EXCEPT !.status = "completed"]]

\* update_one({"_id": b["_id"]}, {"$set": {"status": "canceled"}})
mark_canceled(bks, bid) == [bks EXCEPT ![bid] = [@ EXCEPT !.status = "canceled"]]


\* ------------------------------------------------------------------ Init
InitialShuttles ==
  { <<s1, s2, s3>> :
      s1 \in [identifier : {"SR-01"}, campus : {"Tesano"}, status : {"idle"},
              capacity : {Cap}, occupancy : {0, 1}],
      s2 \in [identifier : {"SR-01"}, campus : {"Tesano"}, status : {"idle"},
              capacity : {DefaultCapacity}, occupancy : {DefaultOccupancy}],
      s3 \in [identifier : {"SR-02"}, campus : {"Abokobi"}, status : {"maintenance"},
              capacity : {Cap}, occupancy : {0}] }

\* no store write has raised
NoFaults == [create |-> 0, cancel |-> 0]

Init ==
  /\ shuttles \in InitialShuttles
  /\ initial = shuttles
  /\ bookings = << >>
  /\ now = 0
  /\ pc = [p \in Procs |-> "idle"]
  /\ call = [p \in Procs |-> NoCall]
  /\ resp = NoResp
  /\ faults = NoFaults

\* number of create_booking calls that are past their checks
InFlightCreates == Cardinality({p \in Procs : pc[p] \in {"reserve", "insert"}})

\* the create_booking calls that passed their checks: the inserted bookings,
\* the calls a raising store write ended and the calls in progress
CreatesPastChecks == Len(bookings) + faults.create + InFlightCreates

Return(p, code, status) ==
  /\ pc' = [pc EXCEPT ![p] = "idle"]
  /\ call' = [call EXCEPT ![p] = NoCall]
  /\ resp' = Response(code, status)

\* ------------------------------------------------------ register_shuttle
\* lines 228-231: one insert into the "shuttle" collection, no validation
\* beyond the types of ShuttleIn; the new _id is the document's position
register_shuttle(p, shuttle) ==
  /\ pc[p] = "idle"
  /\ Len(shuttles) < MaxShuttles
  /\ shuttles' = Append(shuttles, shuttle)
  /\ initial' = Append(initial, shuttle)
  /\ resp' = Response(200, "registered")
  /\ UNCHANGED <<bookings, now, pc, call, faults>>

\* --------------------------------------------------------- seed_default
\* lines 181-188: the shuttles of the default data set, in list order
DefaultShuttles ==
  << [identifier |-> "SR-TES-01", campus |-> "Tesano"],
     [identifier |-> "SR-TES-02", campus |-> "Tesano"],
     [identifier |-> "SR-ABK-01", campus |-> "Abokobi"],
     [identifier |-> "SR-ABK-02", campus |-> "Abokobi"],
     [identifier |-> "SR-MAIN-01", campus |-> "Main Campus"],
     [identifier |-> "SR-MAIN-02", campus |-> "Main Campus"] >>

\* lines 190-200: the document seed_default inserts for a default shuttle
SeedDoc(d) ==
  [identifier |-> d.identifier, campus |-> d.campus, status |-> "idle",
   capacity |-> DefaultCapacity, occupancy |-> DefaultOccupancy]

\* the loop of lines 188-200 moves on to the next default shuttle, or returns
SeedAdvance(p, i) ==
  IF i = Len(DefaultShuttles)
    THEN Return(p, 200, "ok")
    ELSE /\ pc' = [pc EXCEPT ![p] = "seed_find"]
         /\ call' = [call EXCEPT ![p] = [op |-> "seed", i |-> i + 1]]
         /\ resp' = NoResp

\* line 189: find_one({"identifier": ident}) for the next default shuttle; the
\* stops and routes written before (lines 123-180) are not part of the state
seed_default_find(p) ==
  /\ pc[p] \in {"idle", "seed_find"}
  /\ UNCHANGED <<shuttles, bookings, now, initial, faults>>
  /\ LET i == IF pc[p] = "idle" THEN 1 ELSE call[p].i IN
       IF \E s \in DOMAIN shuttles : shuttles[s].identifier = DefaultShuttles[i].identifier
         THEN SeedAdvance(p, i)
         ELSE /\ pc' = [pc EXCEPT ![p] = "seed_insert"]
              /\ call' = [call EXCEPT ![p] = [op |-> "seed", i |-> i]]
              /\ resp' = NoResp

\* lines 190-200: create_document("shuttle", ...) for that default shuttle
seed_default_insert(p) ==
  /\ pc[p] = "seed_insert"
  /\ shuttles' = Append(shuttles, SeedDoc(DefaultShuttles[call[p].i]))
  /\ initial' = Append(initial, SeedDoc(DefaultShuttles[call[p].i]))
  /\ SeedAdvance(p, call[p].i)
  /\ UNCHANGED <<bookings, now, faults>>

\* ------------------------------------------- create_booking, step by step
\* the local variables of a call that passed its checks
CreateCall(req, sid) ==
  [op |-> "create", req |-> req, sid |-> sid, identifier |-> shuttles[sid].identifier]

\* the checks as they would be if the seats were reserved before the capacity
\* check
create_booking_find_ReserveFirst(p, req) ==
  /\ pc[p] = "idle"
  /\ CreatesPastChecks < MaxBookings
  /\ UNCHANGED <<bookings, now, initial, faults>>
  /\ IF SamePickupDropoff(req)
       THEN Return(p, 400, "InvalidRequest") /\ UNCHANGED shuttles
     ELSE IF ShuttleFilter(shuttles, req.campus) = {}
       THEN Return(p, 409, "NoAvailability") /\ UNCHANGED shuttles
     ELSE \E sid \in ShuttleFilter(shuttles, req.campus) :
            IF CapacityExceeded(shuttles[sid].occupancy, req.seats, shuttles[sid].capacity)
              THEN /\ Return(p, 409, "CapacityExceeded")
                   /\ shuttles' = reserve_seats(shuttles, sid, req.seats)
              ELSE /\ pc' = [pc EXCEPT ![p] = "reserve"]
                   /\ call' = [call EXCEPT ![p] = CreateCall(req, sid)]
                   /\ resp' = NoResp
                   /\ UNCHANGED shuttles

\* the checks as they would be if a call went on to another matching shuttle
\* whenever one with room exists
create_booking_find_TriesOthers(p, req) ==
  /\ pc[p] = "idle"
  /\ CreatesPastChecks < MaxBookings
  /\ UNCHANGED <<shuttles, bookings, now, initial, faults>>
  /\ IF SamePickupDropoff(req)
       THEN Return(p, 400, "InvalidRequest")
     ELSE IF ShuttleFilter(shuttles, req.campus) = {}
       THEN Return(p, 409, "NoAvailability")
     ELSE LET roomy == {s \in ShuttleFilter(shuttles, req.campus) :
                          ~CapacityExceeded(shuttles[s].occupancy, req.seats,
                                            shuttles[s].capacity)}
          IN  IF roomy = {}
                THEN Return(p, 409, "CapacityExceeded")
                ELSE \E sid \in roomy :
                       /\ pc' = [pc EXCEPT ![p] = "reserve"]
                       /\ call' = [call EXCEPT ![p] = CreateCall(req, sid)]
                       /\ resp' = NoResp

\* the checks as they would be if the shuttle lookup came before the check of
\* the stops
create_booking_find_AvailabilityFirst(p, req) ==
  /\ pc[p] = "idle"
  /\ CreatesPastChecks < MaxBookings
  /\ UNCHANGED <<shuttles, bookings, now, initial, faults>>
  /\ IF ShuttleFilter(shuttles, req.campus) = {}
       THEN Return(p, 409, "NoAvailability")
     ELSE IF SamePickupDropoff(req)
       THEN Return(p, 400, "InvalidRequest")
     ELSE \E sid \in ShuttleFilter(shuttles, req.campus) :
            IF CapacityExceeded(shuttles[sid].occupancy, req.seats, shuttles[sid].capacity)
              THEN Return(p, 409, "CapacityExceeded")
              ELSE /\ pc' = [pc EXCEPT ![p] = "reserve"]
                   /\ call' = [call EXCEPT ![p] = CreateCall(req, sid)]
                   /\ resp' = NoResp

\* lines 263-274: the checks and the find_one read
create_booking_find(p, req) ==
  /\ pc[p] = "idle"
  /\ CreatesPastChecks < MaxBookings
  /\ UNCHANGED <<shuttles, bookings, now, initial, faults>>
  /\ IF SamePickupDropoff(req)
       THEN Return(p, 400, "InvalidRequest")
     ELSE IF ShuttleFilter(shuttles, req.campus) = {}
       THEN Return(p, 409, "NoAvailability")
     ELSE \E sid \in ShuttleFilter(shuttles, req.campus) :
            IF CapacityExceeded(shuttles[sid].occupancy, req.seats, shuttles[sid].capacity)
              THEN Return(p, 409, "CapacityExceeded")
              ELSE /\ pc' = [pc EXCEPT ![p] = "reserve"]
                   /\ call' = [call EXCEPT ![p] = CreateCall(req, sid)]
                   /\ resp' = NoResp

\* line 277: the occupancy increment
create_booking_reserve(p) ==
  /\ pc[p] = "reserve"
  /\ shuttles' = reserve_seats(shuttles, call[p].sid, call[p].req.seats)
  /\ pc' = [pc EXCEPT ![p] = "insert"]
  /\ resp' = NoResp
  /\ UNCHANGED <<bookings, now, call, initial, faults>>

\* lines 279-302: the booking insert and the response
create_booking_insert(p) ==
  /\ pc[p] = "insert"
  /\ bookings' = create_document(bookings,
                                 BookingDoc(call[p].req, call[p].sid, call[p].identifier))
  /\ Return(p, 200, "confirmed")
  /\ UNCHANGED <<shuttles, now, initial, faults>>

\* ------------------------------------------- cancel_booking, step by step
\* the local variables of a call that has read its booking; at is the time at
\* which it last looked at the booking or the clock (for a call past its window
\* check, the utcnow() of line 324)
CancelCall(bid, b) == [op |-> "cancel", id |-> bid, b |-> b, at |-> now]

\* the read as it would be if a missing scheduled_time counted as a time that
\* has passed
cancel_booking_find_NoneIsPast(p, booking_id) ==
  /\ pc[p] = "idle"
  /\ UNCHANGED <<shuttles, bookings, now, initial, faults>>
  /\ IF ~IsValidObjectId(booking_id)
       THEN Return(p, 500, "ServerError")
     ELSE IF ObjectId(booking_id) \notin DOMAIN bookings
       THEN Return(p, 404, "NotFound")
     ELSE LET b == bookings[ObjectId(booking_id)] IN
       IF AlreadyCanceled(b)
         THEN Return(p, 200, "already_canceled")
       ELSE IF b.scheduled_time = None
         THEN Return(p, 400, "WindowClosed")
       ELSE /\ pc' = [pc EXCEPT ![p] = "window"]
            /\ call' = [call EXCEPT ![p] = CancelCall(ObjectId(booking_id), b)]
            /\ resp' = NoResp

\* lines 315-322: the booking read (find_one) and the checks on the document
\* it returned; a call for a booking with a scheduled_time goes on to read the
\* clock, a call for one without goes on to the decrement
cancel_booking_find(p, booking_id) ==
  /\ pc[p] = "idle"
  /\ UNCHANGED <<shuttles, bookings, now, initial, faults>>
  /\ IF ~IsValidObjectId(booking_id)
       THEN Return(p, 500, "ServerError")
     ELSE IF ObjectId(booking_id) \notin DOMAIN bookings
       THEN Return(p, 404, "NotFound")
     ELSE LET b == bookings[ObjectId(booking_id)] IN
       IF AlreadyCanceled(b)
         THEN Return(p, 200, "already_canceled")
       ELSE /\ pc' = [pc EXCEPT ![p] = IF b.scheduled_time = None THEN "free" ELSE "window"]
            /\ call' = [call EXCEPT ![p] = CancelCall(ObjectId(booking_id), b)]
            /\ resp' = NoResp

\* lines 323-325: datetime.utcnow() is read and compared with the scheduled
\* time of the document read at line 315, whatever the store holds by now
cancel_booking_window(p) ==
  /\ pc[p] = "window"
  /\ UNCHANGED <<shuttles, bookings, now, initial, faults>>
  /\ IF WindowClosed(now, call[p].b.scheduled_time[1])
       THEN Return(p, 400, "WindowClosed")
       ELSE /\ pc' = [pc EXCEPT ![p] = "free"]
            /\ call' = [call EXCEPT ![p] = [@ EXCEPT !.at = now]]
            /\ resp' = NoResp

\* lines 327-332 with update_one returning: the occupancy decrement
cancel_booking_free(p) ==
  /\ pc[p] = "free"
  /\ shuttles' = free_seats(shuttles, call[p].b)
  /\ pc' = [pc EXCEPT ![p] = "mark"]
  /\ resp' = NoResp
  /\ UNCHANGED <<bookings, now, call, initial, faults>>

\* lines 336-337: the status write and the response
cancel_booking_mark(p) ==
  /\ pc[p] = "mark"
  /\ bookings' = mark_canceled(bookings, call[p].id)
  /\ Return(p, 200, "canceled")
  /\ UNCHANGED <<shuttles, now, initial, faults>>

\* ------------------------------------------- store operations that raise
\* line 267 raising: no handler catches it, nothing was written
create_booking_find_raises(p) ==
  /\ pc[p] = "idle"
  /\ Return(p, 500, "ServerError")
  /\ UNCHANGED <<shuttles, bookings, now, initial, faults>>

\* line 277 raising: the call ends before its first write
create_booking_reserve_raises(p) ==
  /\ pc[p] = "reserve"
  /\ faults' = [faults EXCEPT !.create = @ + 1]
  /\ Return(p, 500, "ServerError")
  /\ UNCHANGED <<shuttles, bookings, now, initial>>

\* line 295 raising: the store rejects the insert, the handler has no except
\* and the seats reserved at line 277 stay reserved
create_booking_insert_fails(p) ==
  /\ pc[p] = "insert"
  /\ faults' = [faults EXCEPT !.create = @ + 1]
  /\ Return(p, 500, "ServerError")
  /\ UNCHANGED <<shuttles, bookings, now, initial>>

\* line 315 raising in find_one: nothing was written
cancel_booking_find_raises(p) ==
  /\ pc[p] = "idle"
  /\ Return(p, 500, "ServerError")
  /\ UNCHANGED <<shuttles, bookings, now, initial, faults>>

\* the decrement as it would be without the try/except around it
cancel_booking_free_raises_Unhandled(p) ==
  /\ pc[p] = "free"
  /\ Return(p, 500, "ServerError")
  /\ UNCHANGED <<shuttles, bookings, now, initial, faults>>

\* lines 331-334 with update_one raising: the except passes, nothing is
\* written and the handler goes on to line 336
cancel_booking_free_raises(p) ==
  /\ pc[p] = "free"
  /\ pc' = [pc EXCEPT ![p] = "mark"]
  /\ resp' = NoResp
  /\ UNCHANGED <<shuttles, bookings, now, call, initial, faults>>

\* line 336 raising: the seats are already freed, the booking stays confirmed
cancel_booking_mark_raises(p) ==
  /\ pc[p] = "mark"
  /\ faults.cancel < MaxFaults
  /\ faults' = [faults EXCEPT !.cancel = @ + 1]
  /\ Return(p, 500, "ServerError")
  /\ UNCHANGED <<shuttles, bookings, now, initial>>

\* datetime.utcnow() advances between store operations
Tick ==
  /\ now < MaxTime
  /\ now' = now + 1
  /\ resp' = NoResp
  /\ UNCHANGED <<shuttles, bookings, pc, call, initial, faults>>

\* ----------------- requests on two workers, interleaved at store operations
\* the create_booking requests of Spec
Requests == BookingIn(RaceSeats, {None})

\* the registered shuttles are those in service: one that is charging is
\* matched by no filter of create_booking and written by no call
Next ==
  \/ \E p \in Procs, sh \in IdleShuttleInputs : register_shuttle(p, sh)
  \/ \E p \in Procs, req \in Requests : create_booking_find(p, req)
  \/ \E p \in Procs : create_booking_reserve(p)
  \/ \E p \in Procs : create_booking_insert(p)
  \/ \E p \in Procs : create_booking_insert_fails(p)
  \/ \E p \in Procs, id \in BookingIdInputs : cancel_booking_find(p, id)
  \/ \E p \in Procs : cancel_booking_free(p)
  \/ \E p \in Procs : cancel_booking_free_raises(p)
  \/ \E p \in Procs : cancel_booking_mark(p)

Spec == Init /\ [][Next]_vars

\* ------------- scheduled bookings on two workers while the clock advances
\* the create_booking requests of SpecClock: scheduled or not, for the campus
\* that is served once a shuttle has been registered for it
ClockRequests ==
  {r \in BookingIn(RaceSeats, ScheduledInputs) : r.campus = RegisteredCampus}

\* the initial fleet with nothing on board yet
InitClock == Init /\ \A s \in DOMAIN shuttles : shuttles[s].occupancy = DefaultOccupancy

NextClock ==
  \/ \E p \in Procs, sh \in IdleShuttleInputs : register_shuttle(p, sh)
  \/ \E p \in Procs, req \in ClockRequests : create_booking_find(p, req)
  \/ \E p \in Procs : create_booking_reserve(p)
  \/ \E p \in Procs : create_booking_insert(p)
  \/ \E p \in Procs, id \in BookingIdInputs : cancel_booking_find(p, id)
  \/ \E p \in Procs : cancel_booking_window(p)
  \/ \E p \in Procs : cancel_booking_free(p)
  \/ \E p \in Procs : cancel_booking_mark(p)
  \/ Tick

SpecClock == InitClock /\ [][NextClock]_vars

\* ------------------ every seat count the endpoint accepts, on two workers
SeatRequests == BookingIn(SeatInputs, {None})

NextSeats ==
  \/ \E p \in Procs, sh \in ShuttleInputs : register_shuttle(p, sh)
  \/ \E p \in Procs, req \in SeatRequests : create_booking_find(p, req)
  \/ \E p \in Procs : create_booking_reserve(p)
  \/ \E p \in Procs : create_booking_insert(p)
  \/ \E p \in Procs, id \in BookingIdInputs : cancel_booking_find(p, id)
  \/ \E p \in Procs : cancel_booking_free(p)
  \/ \E p \in Procs : cancel_booking_mark(p)

SpecSeats == Init /\ [][NextSeats]_vars

\* ------------------------- two workers and a store whose operations raise
FaultRequests == {r \in Requests : r.campus = RegisteredCampus}

NextFault ==
  \/ \E p \in Procs, sh \in IdleShuttleInputs : register_shuttle(p, sh)
  \/ \E p \in Procs, req \in FaultRequests : create_booking_find(p, req)
  \/ \E p \in Procs : create_booking_find_raises(p)
  \/ \E p \in Procs : create_booking_reserve(p)
  \/ \E p \in Procs : create_booking_reserve_raises(p)
  \/ \E p \in Procs : create_booking_insert(p)
  \/ \E p \in Procs : create_booking_insert_fails(p)
  \/ \E p \in Procs, id \in BookingIdInputs : cancel_booking_find(p, id)
  \/ \E p \in Procs : cancel_booking_find_raises(p)
  \/ \E p \in Procs : cancel_booking_free(p)
  \/ \E p \in Procs : cancel_booking_free_raises(p)
  \/ \E p \in Procs : cancel_booking_mark(p)
  \/ \E p \in Procs : cancel_booking_mark_raises(p)

SpecFault == Init /\ [][NextFault]_vars

\* ------- interleaved calls that share no shuttle and no booking to cancel
\* the shuttles a create_booking call has selected so far: the ones a call has
\* already written to, and the ones a call in progress is about to write to
SelectedShuttles ==
  {s \in DOMAIN shuttles : shuttles[s].status # initial[s].status}
    \cup {call[q].sid : q \in {r \in Procs : pc[r] \in {"reserve", "insert"}}}

\* the bookings a cancel_booking call has been made for
CancelCalledFor ==
  {i \in DOMAIN bookings : bookings[i].status = "canceled"}
    \cup {call[q].id : q \in {r \in Procs : pc[r] \in {"window", "free", "mark"}}}

NextDisjoint ==
  \/ \E p \in Procs, sh \in ShuttleInputs : register_shuttle(p, sh)
  \/ \E p \in Procs, req \in Requests :
       /\ create_booking_find(p, req)
       /\ pc'[p] = "reserve" => call'[p].sid \notin SelectedShuttles
  \/ \E p \in Procs : create_booking_reserve(p)
  \/ \E p \in Procs : create_booking_insert(p)
  \/ \E p \in Procs : create_booking_insert_fails(p)
  \/ \E p \in Procs, id \in BookingIdInputs :
       /\ IsValidObjectId(id) => ObjectId(id) \notin CancelCalledFor
       /\ cancel_booking_find(p, id)
  \/ \E p \in Procs : cancel_booking_free(p)
  \/ \E p \in Procs : cancel_booking_mark(p)

SpecDisjoint == Init /\ [][NextDisjoint]_vars

\* ------ one worker: every call runs to its end before the next one starts
\* the create_booking requests with a seat count of the documented range
RangeRequests == BookingIn(RangeSeats, {None})

NextAtomic ==
  \/ \E p \in Sequential : seed_default_find(p)
  \/ \E p \in Sequential : seed_default_insert(p)
  \/ \E p \in Sequential, sh \in ValidShuttleInputs : register_shuttle(p, sh)
  \/ \E p \in Sequential, req \in RangeRequests : create_booking_find(p, req)
  \/ \E p \in Sequential : create_booking_reserve(p)
  \/ \E p \in Sequential : create_booking_insert(p)
  \/ \E p \in Sequential, id \in BookingIdInputs : cancel_booking_find(p, id)
  \/ \E p \in Sequential : cancel_booking_free(p)
  \/ \E p \in Sequential : cancel_booking_mark(p)

SpecAtomic == Init /\ [][NextAtomic]_vars

\* ------------ one worker, one campus with a single freshly registered shuttle
FirstSeats == 5

SecondSeats == 8

ScenarioSeats == {FirstSeats, SecondSeats}

\* a shuttle registered with the defaults of ShuttleIn: idle, capacity 12, occupancy 0
ScenarioShuttles ==
  << [identifier |-> "SR-01", campus |-> "Tesano", status |-> "idle",
      capacity |-> DefaultCapacity, occupancy |-> DefaultOccupancy] >>

\* the create_booking requests of the scenario: for the campus of its shuttle
ScenarioRequests ==
  {r \in BookingIn(ScenarioSeats, {None}) : r.campus = ScenarioShuttles[1].campus}

\* the registrations that leave the campus of the scenario with its one shuttle
ScenarioShuttleInputs == {sh \in ShuttleInputs : sh.campus # ScenarioShuttles[1].campus}

InitScenario ==
  /\ shuttles = ScenarioShuttles
  /\ initial = shuttles
  /\ bookings = << >>
  /\ now = 0
  /\ pc = [p \in Procs |-> "idle"]
  /\ call = [p \in Procs |-> NoCall]
  /\ resp = NoResp
  /\ faults = NoFaults

NextScenario ==
  \/ \E p \in Sequential, sh \in ScenarioShuttleInputs : register_shuttle(p, sh)
  \/ \E p \in Sequential, req \in ScenarioRequests : create_booking_find(p, req)
  \/ \E p \in Sequential : create_booking_reserve(p)
  \/ \E p \in Sequential : create_booking_insert(p)
  \/ \E p \in Sequential, id \in BookingIdInputs : cancel_booking_find(p, id)
  \/ \E p \in Sequential : cancel_booking_free(p)
  \/ \E p \in Sequential : cancel_booking_mark(p)

SpecScenario == InitScenario /\ [][NextScenario]_vars

\* =================================================================== claims
\* helpers of the claims' formulas
Quiescent == \A p \in Procs : pc[p] = "idle"

BookingExists(booking_id) ==
  IsValidObjectId(booking_id) /\ ObjectId(booking_id) \in DOMAIN bookings

AssignedShuttle(b) == ObjectId(b.assigned_shuttle_id)

RECURSIVE ConfirmedSeatsUpTo(_, _)
\* the seats of the confirmed bookings 1..n that are assigned to shuttle s
ConfirmedSeatsUpTo(s, n) ==
  IF n = 0 THEN 0
  ELSE ConfirmedSeatsUpTo(s, n - 1)
       + (IF bookings[n].status = "confirmed" /\ AssignedShuttle(bookings[n]) = s
            THEN bookings[n].seats ELSE 0)

ConfirmedSeats(s) == ConfirmedSeatsUpTo(s, Len(bookings))

\* shuttle s has room for n more seats
HasRoom(s, n) == shuttles[s].occupancy + n <= shuttles[s].capacity

\* C1: when each call runs to its end before the next starts, with seat counts
\* in 1..6 and every shuttle entering the store with occupancy within its
\* capacity, no shuttle's occupancy ever exceeds its capacity: a call goes on
\* to its writes only with a shuttle where occupancy + seats fits, and the
\* increment is made on a shuttle where it still fits; when no matching
\* shuttle has room the call is rejected with CapacityExceeded (409) and
\* nothing is changed.
C1_OccupancyWithinCapacity ==
  /\ [](\A s \in DOMAIN shuttles : shuttles[s].occupancy <= shuttles[s].capacity)
  /\ [][\A p \in Sequential :
          /\ create_booking_reserve(p) => HasRoom(call[p].sid, call[p].req.seats)
          /\ \A req \in RangeRequests :
               /\ (pc'[p] = "reserve" /\ create_booking_find(p, req))
                    => HasRoom(call'[p].sid, req.seats)
               /\ ( /\ ~SamePickupDropoff(req)
                    /\ ShuttleFilter(shuttles, req.campus) # {}
                    /\ \A sid \in ShuttleFilter(shuttles, req.campus) :
                         ~HasRoom(sid, req.seats)
                    /\ create_booking_find(p, req) )
                  => /\ resp' = Response(409, "CapacityExceeded")
                     /\ shuttles' = shuttles
                     /\ bookings' = bookings]_vars

\* C1 witness: a call was rejected for capacity on a shuttle that bookings filled
C1_Witness ==
  /\ resp = Response(409, "CapacityExceeded")
  /\ \E s \in DOMAIN shuttles :
       /\ shuttles[s].occupancy > initial[s].occupancy
       /\ shuttles[s].occupancy + 1 > shuttles[s].capacity

\* C2: the capacity check of create_booking looks only at the occupancy it
\* read (a rejection for capacity always has a matching shuttle whose stored
\* occupancy + seats overflows, a pass always has a shuttle whose stored
\* occupancy + seats fits), and the later increment is unconditional: it adds
\* the seats whatever the occupancy has become since the read. Two calls that
\* both read before either writes therefore both succeed.
C2_CheckThenUnconditionalWrite ==
  [][ /\ \A p \in Procs, req \in Requests :
           create_booking_find(p, req) =>
             /\ pc'[p] = "reserve" =>
                  /\ call'[p].sid \in ShuttleFilter(shuttles, req.campus)
                  /\ HasRoom(call'[p].sid, req.seats)
             /\ resp'.status = "CapacityExceeded" =>
                  \E sid \in ShuttleFilter(shuttles, req.campus) : ~HasRoom(sid, req.seats)
      /\ \A p \in Procs :
           create_booking_reserve(p) =>
             /\ shuttles'[call[p].sid].occupancy
                  = shuttles[call[p].sid].occupancy + call[p].req.seats
             /\ shuttles'[call[p].sid].status = "enroute"
             /\ pc'[p] = "insert" ]_vars

\* C2 witness: no call in progress, no failed write, nothing canceled, and a
\* shuttle holds more than its capacity, every seat of it owed to a confirmed
\* booking
C2_Witness ==
  /\ Quiescent
  /\ faults = NoFaults
  /\ \A i \in DOMAIN bookings : bookings[i].status = "confirmed"
  /\ \E s \in DOMAIN shuttles :
       /\ initial[s].occupancy <= initial[s].capacity
       /\ shuttles[s].occupancy > shuttles[s].capacity
       /\ shuttles[s].occupancy = initial[s].occupancy + ConfirmedSeats(s)
       /\ Cardinality({i \in DOMAIN bookings : AssignedShuttle(bookings[i]) = s}) >= 2

\* C3: a cancel call that passed its checks read a confirmed booking; when it
\* passes lines 327-334 on its way to answering canceled, whether update_one
\* returned or raised, the occupancy of the shuttle whose _id is the booking's
\* assigned_shuttle_id is lower by exactly the booking's seats and every other
\* shuttle, and everything else of that shuttle, is as it was - also when
\* another shuttle has the same identifier; its last step answers canceled
\* and writes no shuttle.
C3_CancelFreesAssignedShuttle ==
  [][\A p \in Procs :
       /\ \A id \in BookingIdInputs :
            (pc'[p] \in {"window", "free"} /\ cancel_booking_find(p, id)) =>
              /\ call'[p].b = bookings[ObjectId(id)]
              /\ call'[p].b.status = "confirmed"
       /\ (cancel_booking_free(p) \/ cancel_booking_free_raises(p)) =>
            LET b == call[p].b
                sid == AssignedShuttle(b)
            IN  /\ shuttles'[sid] = [shuttles[sid] EXCEPT !.occupancy = @ - b.seats]
                /\ \A s \in DOMAIN shuttles : s # sid => shuttles'[s] = shuttles[s]
                /\ DOMAIN shuttles' = DOMAIN shuttles
       /\ cancel_booking_mark(p) =>
            /\ resp' = Response(200, "canceled")
            /\ shuttles' = shuttles]_vars

\* C4: a cancel call on a booking that is already canceled returns 200 with
\* status "already_canceled" in its first step and changes neither the
\* bookings nor any shuttle, so the state after two sequential cancels is the
\* state after one.
C4_SecondCancelIsNoOp ==
  [][\A p \in Procs, id \in BookingIdInputs :
       ( /\ BookingExists(id)
         /\ bookings[ObjectId(id)].status = "canceled"
         /\ cancel_booking_find(p, id) )
       => /\ resp' = Response(200, "already_canceled")
          /\ pc'[p] = "idle"
          /\ bookings' = bookings
          /\ shuttles' = shuttles]_vars

\* C4 witness: a second cancel has answered on a canceled booking that had
\* seats to return
C4_Witness ==
  /\ resp = Response(200, "already_canceled")
  /\ \E i \in DOMAIN bookings : bookings[i].status = "canceled" /\ bookings[i].seats # 0

\* a call that has read a booking with a scheduled_time and is about to read
\* the clock
AtWindowCheck(p) == pc[p] = "window" /\ call[p].b.scheduled_time # None

\* C5 as stated: a cancel call for a confirmed booking with a scheduled_time
\* goes on to the window check; there it fails with WindowClosed (400) when
\* the time it reads is scheduled_time - 5 or later, and passes when it is
\* strictly before; a call that passed answers canceled.
C5_WindowClosedAtBoundary ==
  [][\A p \in Procs :
       /\ \A id \in BookingIdInputs :
            ( /\ BookingExists(id)
              /\ bookings[ObjectId(id)].status = "confirmed"
              /\ bookings[ObjectId(id)].scheduled_time # None
              /\ cancel_booking_find(p, id) )
            => pc'[p] = "window"
       /\ (AtWindowCheck(p) /\ cancel_booking_window(p)) =>
            IF now >= call[p].b.scheduled_time[1] - CancelCutoff
              THEN resp' = Response(400, "WindowClosed")
              ELSE pc'[p] = "free"
       /\ cancel_booking_mark(p) => resp' = Response(200, "canceled")]_vars

\* C5 amended: a cancel call for a confirmed booking with a scheduled_time
\* goes on to the window check, writing nothing; there it fails with
\* WindowClosed (400), writing nothing, when the time it reads is strictly
\* later than scheduled_time - 5, and passes when it is at or before
\* scheduled_time - 5; a call that passed answers canceled and leaves the
\* booking canceled.
C5_WindowClosedAfterBoundary ==
  [][\A p \in Procs :
       /\ \A id \in BookingIdInputs :
            ( /\ BookingExists(id)
              /\ bookings[ObjectId(id)].status = "confirmed"
              /\ bookings[ObjectId(id)].scheduled_time # None
              /\ cancel_booking_find(p, id) )
            => /\ pc'[p] = "window"
               /\ call'[p].b = bookings[ObjectId(id)]
               /\ resp' = NoResp
               /\ bookings' = bookings
               /\ shuttles' = shuttles
       /\ (AtWindowCheck(p) /\ cancel_booking_window(p)) =>
            IF now > call[p].b.scheduled_time[1] - CancelCutoff
              THEN /\ resp' = Response(400, "WindowClosed")
                   /\ pc'[p] = "idle"
                   /\ bookings' = bookings
                   /\ shuttles' = shuttles
              ELSE /\ pc'[p] = "free"
                   /\ resp' = NoResp
       /\ cancel_booking_mark(p) =>
            /\ resp' = Response(200, "canceled")
            /\ bookings'[call[p].id].status = "canceled"]_vars

\* C5 witness: a scheduled booking was canceled by a call that made its window
\* check at exactly scheduled_time - 5
C5_Witness ==
  \E p \in Procs :
    /\ pc[p] = "mark"
    /\ call[p].b.scheduled_time # None
    /\ call[p].at = call[p].b.scheduled_time[1] - CancelCutoff
    /\ shuttles[AssignedShuttle(call[p].b)].occupancy
         = initial[AssignedShuttle(call[p].b)].occupancy

RECURSIVE UnreturnedSeatsUpTo(_, _)
\* the seats of those bookings 1..n assigned to shuttle s that no cancel call
\* can have taken off it: the booking is confirmed and no call for it has
\* come past lines 327-334
UnreturnedSeatsUpTo(s, n) ==
  IF n = 0 THEN 0
  ELSE UnreturnedSeatsUpTo(s, n - 1)
       + (IF /\ bookings[n].status = "confirmed"
             /\ AssignedShuttle(bookings[n]) = s
             /\ ~\E p \in Procs : pc[p] = "mark" /\ call[p].id = n
            THEN bookings[n].seats ELSE 0)

\* C6: over any interleaving of cancel calls on one booking, the booking's
\* seats are taken off the assigned shuttle's occupancy at most once: a
\* shuttle never holds less than its initial occupancy plus the seats of the
\* bookings that no cancel call has come to free.
C6_DecrementedOnce ==
  \A s \in DOMAIN shuttles :
    shuttles[s].occupancy >= initial[s].occupancy + UnreturnedSeatsUpTo(s, Len(bookings))

\* C7: a create_booking call that is rejected (InvalidRequest, NoAvailability
\* or CapacityExceeded) is rejected by its first step, which leaves every
\* shuttle record and the booking records exactly as they were before the call.
C7_RejectedCreateChangesNothing ==
  [][resp'.status \in {"InvalidRequest", "NoAvailability", "CapacityExceeded"}
       => /\ \E p \in Procs, req \in Requests :
               pc[p] = "idle" /\ pc'[p] = "idle" /\ create_booking_find(p, req)
          /\ shuttles' = shuttles
          /\ bookings' = bookings]_vars

\* C7 witness: a request was rejected for capacity, and one for its stops,
\* while bookings and reserved seats existed
C7_Witness ==
  /\ resp.status \in {"InvalidRequest", "CapacityExceeded"}
  /\ resp.code \in {400, 409}
  /\ Len(bookings) > 0
  /\ \E s \in DOMAIN shuttles : shuttles[s].status = "enroute"

\* C8: every create_booking call that succeeds, for any seat count the
\* endpoint accepts, leaves the assigned shuttle's occupancy strictly greater
\* than before its increment and larger by exactly seats, its status enroute,
\* and exactly one new booking with status confirmed, eta_minutes 10 and that
\* shuttle's id.
C8_SuccessIncreasesOccupancy ==
  [][\A p \in Procs :
       /\ create_booking_reserve(p) =>
            LET sid == call[p].sid IN
              /\ shuttles'[sid].occupancy = shuttles[sid].occupancy + call[p].req.seats
              /\ shuttles'[sid].occupancy > shuttles[sid].occupancy
              /\ shuttles'[sid].status = "enroute"
       /\ create_booking_insert(p) =>
            /\ resp' = Response(200, "confirmed")
            /\ Len(bookings') = Len(bookings) + 1
            /\ SubSeq(bookings', 1, Len(bookings)) = bookings
            /\ LET b == bookings'[Len(bookings')] IN
                 /\ b.status = "confirmed"
                 /\ b.eta_minutes = ETA
                 /\ b.seats = call[p].req.seats
                 /\ AssignedShuttle(b) = call[p].sid]_vars

\* C9: no reachable state, the states between the two store writes of
\* create_booking and the states after a failed insert included, has seats on
\* a shuttle's occupancy that no confirmed booking record accounts for.
C9_ReservedSeatsHaveRecord ==
  \A s \in DOMAIN shuttles :
    shuttles[s].occupancy <= initial[s].occupancy + ConfirmedSeats(s)

\* C10: every persisted booking has 1 <= seats <= 6.
C10_SeatsInRange ==
  \A i \in DOMAIN bookings : MinSeats <= bookings[i].seats /\ bookings[i].seats <= MaxSeats

\* C11: a cancel call for a confirmed booking without a scheduled_time passes
\* its checks at any current time: it never comes to the window check, the
\* only step that answers WindowClosed; a call that passed its checks answers
\* canceled and leaves the booking canceled.
C11_UnscheduledAlwaysCancelable ==
  [][\A p \in Procs :
       /\ \A id \in BookingIdInputs :
            ( /\ BookingExists(id)
              /\ bookings[ObjectId(id)].status = "confirmed"
              /\ bookings[ObjectId(id)].scheduled_time = None
              /\ cancel_booking_find(p, id) )
            => /\ pc'[p] = "free"
               /\ resp' = NoResp
       /\ cancel_booking_window(p) => call[p].b.scheduled_time # None
       /\ (cancel_booking_mark(p) /\ call[p].b.scheduled_time = None) =>
            /\ resp' = Response(200, "canceled")
            /\ bookings'[call[p].id].status = "canceled"]_vars

\* an unscheduled booking is being canceled by a call that passed its checks
\* at a time when the window of a booking scheduled at the modelled time was
\* already closed
C11_Witness ==
  \E p \in Procs :
    /\ pc[p] = "mark"
    /\ call[p].b.scheduled_time = None
    /\ \A t \in ScheduledInputs \ {None} : WindowClosed(call[p].at, t[1])

\* C12: a booking's status only ever moves from confirmed to canceled: records
\* are never removed, a new record is confirmed, a canceled booking stays
\* canceled, and no step writes completed or turns a booking back to confirmed.
C12_StatusOnlyConfirmedToCanceled ==
  [][/\ Len(bookings') >= Len(bookings)
     /\ \A i \in DOMAIN bookings' :
          IF i \in DOMAIN bookings
            THEN \/ bookings'[i].status = bookings[i].status
                 \/ /\ bookings[i].status = "confirmed"
                    /\ bookings'[i].status = "canceled"
            ELSE bookings'[i].status = "confirmed"]_vars

\* a booking was canceled, and a later booking was created and canceled too
C12_Witness ==
  /\ resp = Response(200, "canceled")
  /\ Len(bookings) = 2
  /\ bookings[1].status = "canceled"
  /\ bookings[2].status = "canceled"

\* the campuses without a shuttle that is idle or enroute
DryCampuses ==
  {c \in CampusInputs :
     \A s \in DOMAIN shuttles :
       shuttles[s].campus = c => shuttles[s].status \notin {"idle", "enroute"}}

\* the shuttles a call for campus c must leave alone
Bystanders(c) ==
  {s \in DOMAIN shuttles :
     shuttles[s].campus # c \/ shuttles[s].status \in {"charging", "maintenance"}}

\* C13 as stated: a call is rejected with NoAvailability (409) exactly when no
\* shuttle of the requested campus is idle or enroute, and no call changes a
\* shuttle of another campus or one that is charging or in maintenance.
C13_NoAvailabilityIffNoEligible ==
  [][\A p \in Procs :
       /\ \A req \in Requests :
            create_booking_find(p, req) =>
              (resp' = Response(409, "NoAvailability") <=> req.campus \in DryCampuses)
       /\ (create_booking_reserve(p) \/ create_booking_insert(p)) =>
            \A s \in Bystanders(call[p].req.campus) : shuttles'[s] = shuttles[s]]_vars

\* C13: a call whose pickup and dropoff differ is rejected with NoAvailability
\* (409) exactly when no shuttle of the requested campus is idle or enroute (a
\* call with equal stops never is), and no step of a call changes a shuttle of
\* another campus or one that is charging or in maintenance.
C13_NoAvailabilityIffNoEligibleAndStopsDiffer ==
  [][\A p \in Procs :
       /\ \A req \in Requests :
            create_booking_find(p, req) =>
              /\ resp' = Response(409, "NoAvailability")
                   <=> (req.campus \in DryCampuses /\ ~SamePickupDropoff(req))
              /\ shuttles' = shuttles
       /\ (create_booking_reserve(p) \/ create_booking_insert(p)) =>
            \A s \in Bystanders(call[p].req.campus) : shuttles'[s] = shuttles[s]]_vars

\* a call was rejected with NoAvailability while another campus has a shuttle
\* that carries a booking and a shuttle of some campus is in maintenance
C13_Witness ==
  /\ resp = Response(409, "NoAvailability")
  /\ DryCampuses # {}
  /\ DryCampuses # CampusInputs
  /\ \E s \in DOMAIN shuttles : shuttles[s].status = "maintenance"
  /\ \E i \in DOMAIN bookings : bookings[i].status = "confirmed"

\* the first booking of the scenario is the only record and is confirmed
FirstBooked ==
  /\ Len(bookings) = 1
  /\ bookings[1].seats = FirstSeats
  /\ bookings[1].status = "confirmed"

\* C14: from one idle shuttle of capacity 12 and occupancy 0 on its campus,
\* with the calls run one after another: booking 5 seats passes the checks,
\* raises the occupancy to 5 with status enroute and answers confirmed;
\* booking 8 more seats is then rejected with CapacityExceeded and leaves
\* occupancy 5; cancelling the first booking then passes the checks, lowers
\* the occupancy to 0 and answers canceled.
C14_BookRejectCancelScenario ==
  /\ []((FirstBooked /\ Quiescent) => /\ shuttles[1].occupancy = FirstSeats
                                      /\ shuttles[1].status = "enroute")
  /\ [][\A p \in Sequential :
          /\ \A req \in ScenarioRequests :
               /\ ( /\ bookings = << >>
                    /\ req.seats = FirstSeats
                    /\ req.campus = shuttles[1].campus
                    /\ ~SamePickupDropoff(req)
                    /\ create_booking_find(p, req) )
                  => (pc'[p] = "reserve" /\ call'[p].sid = 1)
               /\ ( /\ FirstBooked
                    /\ req.seats = SecondSeats
                    /\ req.campus = shuttles[1].campus
                    /\ ~SamePickupDropoff(req)
                    /\ create_booking_find(p, req) )
                  => /\ resp' = Response(409, "CapacityExceeded")
                     /\ shuttles'[1].occupancy = FirstSeats
                     /\ bookings' = bookings
          /\ (bookings = << >> /\ create_booking_reserve(p)
                /\ call[p].req.seats = FirstSeats)
               => (shuttles'[1].occupancy = FirstSeats /\ shuttles'[1].status = "enroute")
          /\ (bookings = << >> /\ create_booking_insert(p)
                /\ call[p].req.seats = FirstSeats)
               => (resp' = Response(200, "confirmed") /\ FirstBooked')
          /\ (FirstBooked /\ cancel_booking_find(p, ObjectIdStr(1))) => pc'[p] = "free"
          /\ (FirstBooked /\ cancel_booking_free(p)) => shuttles'[1].occupancy = 0
          /\ (FirstBooked /\ cancel_booking_mark(p))
               => /\ resp' = Response(200, "canceled")
                  /\ shuttles'[1].occupancy = 0
                  /\ bookings'[1].status = "canceled"]_vars

\* 5 seats are booked and the request for 8 more has just been rejected
C14_Witness ==
  /\ SubSeq(initial, 1, 1) = ScenarioShuttles
  /\ FirstBooked
  /\ resp = Response(409, "CapacityExceeded")
  /\ shuttles[1].occupancy = FirstSeats

\* the call for req on worker p is answered CapacityExceeded and writes nothing
RejectedForCapacity(p, req) ==
  /\ create_booking_find(p, req)
  /\ resp' = Response(409, "CapacityExceeded")
  /\ shuttles' = shuttles
  /\ bookings' = bookings

\* C15: capacity is checked only on the shuttle the lookup returned: whenever
\* some idle or enroute shuttle of the campus has no room for the request, the
\* call that is handed that shuttle is rejected with CapacityExceeded and
\* writes nothing, also when another idle or enroute shuttle of the same
\* campus has room; no second shuttle is tried.
C15_OnlySelectedShuttleChecked ==
  \A p \in Procs :
    (pc[p] = "idle" /\ CreatesPastChecks < MaxBookings) =>
      \A req \in Requests :
        ( /\ ~SamePickupDropoff(req)
          /\ \E s \in DOMAIN shuttles :
               /\ shuttles[s].campus = req.campus
               /\ shuttles[s].status \in {"idle", "enroute"}
               /\ ~HasRoom(s, req.seats) )
        => ENABLED RejectedForCapacity(p, req)

\* a call has just been rejected for capacity although another idle or enroute
\* shuttle of the campus has room for the largest request
C15_Witness ==
  /\ resp = Response(409, "CapacityExceeded")
  /\ \E s, t \in DOMAIN shuttles :
       /\ s # t
       /\ shuttles[s].campus = shuttles[t].campus
       /\ shuttles[s].status \in {"idle", "enroute"}
       /\ shuttles[t].status \in {"idle", "enroute"}
       /\ \A n \in RaceSeats : HasRoom(t, n)
       /\ \E n \in RaceSeats : ~HasRoom(s, n)

\* C16: in every state where no call is in progress, reached by interleaved
\* create_booking calls that each selected a different shuttle and at most one
\* cancel_booking call per booking, each shuttle's occupancy equals its initial
\* occupancy plus the seats of the confirmed bookings assigned to it.
C16_OccupancyIsSumOfConfirmed ==
  Quiescent =>
    \A s \in DOMAIN shuttles :
      shuttles[s].occupancy = initial[s].occupancy + ConfirmedSeats(s)

\* C17: the checks run in a fixed order, stops first, availability second,
\* capacity last: a call with pickup equal to dropoff is answered
\* InvalidRequest (400) whatever the shuttles' state; a call with two stops
\* for a campus without an idle or enroute shuttle is answered NoAvailability;
\* and no call for such a campus is answered CapacityExceeded.
C17_ChecksInFixedOrder ==
  [][\A p \in Procs, req \in Requests :
       create_booking_find(p, req) =>
         /\ SamePickupDropoff(req) => resp' = Response(400, "InvalidRequest")
         /\ (~SamePickupDropoff(req) /\ req.campus \in DryCampuses)
              => resp' = Response(409, "NoAvailability")
         /\ resp'.status = "CapacityExceeded" => req.campus \notin DryCampuses]_vars

\* a call was rejected for its stops in a state where a campus has no idle or
\* enroute shuttle and an idle or enroute shuttle has no free seat left
C17_Witness ==
  /\ resp = Response(400, "InvalidRequest")
  /\ DryCampuses # {}
  /\ \E s \in DOMAIN shuttles :
       /\ shuttles[s].status \in {"idle", "enroute"}
       /\ shuttles[s].occupancy >= shuttles[s].capacity

\* C18: when the shuttle update of a cancel call that passed its checks (a
\* booking read as confirmed, inside its window) raises, the failure is not
\* surfaced: the step changes no shuttle and no booking and sends no response,
\* and the call goes on to set the booking to canceled and to answer canceled,
\* again without changing a shuttle.
C18_ShuttleFailureSwallowed ==
  [][\A p \in Procs :
       /\ cancel_booking_free_raises(p) =>
            /\ call[p].b.status = "confirmed"
            /\ pc'[p] = "mark"
            /\ resp' = NoResp
            /\ shuttles' = shuttles
            /\ bookings' = bookings
       /\ cancel_booking_mark(p) =>
            /\ resp' = Response(200, "canceled")
            /\ bookings'[call[p].id].status = "canceled"
            /\ shuttles' = shuttles]_vars

\* the only booking is canceled, no call is in progress, no write of a call
\* was lost, and its seats are still on its shuttle
C18_Witness ==
  /\ resp = Response(200, "canceled")
  /\ Quiescent
  /\ faults = NoFaults
  /\ Len(bookings) = 1
  /\ bookings[1].status = "canceled"
  /\ bookings[1].seats > 0
  /\ LET s == AssignedShuttle(bookings[1])
     IN  shuttles[s].occupancy = initial[s].occupancy + bookings[1].seats

\* C19: cancel_booking never changes a shuttle's status or capacity: a shuttle
\* that a booking set to enroute is enroute in every later state, also when
\* every booking assigned to it has been canceled and its occupancy is back
\* at its initial value; a cancel does not restore the shuttle's earlier state.
C19_CancelKeepsStatusAndCapacity ==
  /\ [](\A i \in DOMAIN bookings :
          shuttles[AssignedShuttle(bookings[i])].status = "enroute")
  /\ [][\A p \in Procs :
          ( \/ \E id \in BookingIdInputs : cancel_booking_find(p, id)
            \/ cancel_booking_window(p)
            \/ cancel_booking_free(p)
            \/ cancel_booking_free_raises(p)
            \/ cancel_booking_mark(p) )
          => /\ DOMAIN shuttles' = DOMAIN shuttles
             /\ \A s \in DOMAIN shuttles :
                  /\ shuttles'[s].status = shuttles[s].status
                  /\ shuttles'[s].capacity = shuttles[s].capacity]_vars

\* a shuttle that was idle is enroute although the one booking assigned to it
\* has been canceled and its occupancy is back at its initial value
C19_Witness ==
  /\ resp = Response(200, "canceled")
  /\ Quiescent
  /\ Len(bookings) = 1
  /\ bookings[1].status = "canceled"
  /\ bookings[1].seats > 0
  /\ LET s == AssignedShuttle(bookings[1])
     IN  /\ shuttles[s].occupancy = initial[s].occupancy
         /\ shuttles[s].status = "enroute"
         /\ initial[s].status = "idle"

\* C20: a cancel_booking call with an identifier for which no booking exists,
\* whatever the identifier's form, is answered NotFound (404), and a call
\* answered NotFound or WindowClosed leaves every booking's status and every
\* shuttle's occupancy unchanged.
C20_UnknownIdIsNotFound ==
  [][\A p \in Procs, id \in BookingIdInputs :
       /\ (~BookingExists(id) /\ cancel_booking_find(p, id))
          => resp' = Response(404, "NotFound")
       /\ ( /\ resp'.status \in {"NotFound", "WindowClosed"}
            /\ (cancel_booking_find(p, id) \/ cancel_booking_window(p)) )
          => /\ \A i \in DOMAIN bookings : bookings'[i].status = bookings[i].status
             /\ \A s \in DOMAIN shuttles :
                  shuttles'[s].occupancy = shuttles[s].occupancy]_vars

====
